---- MODULE Spec2Model ----
(***************************************************************************)
(* Slack membership webhook of hansobs/Nabolag.  The repository holds      *)
(* several iterations of the same request handler; each is modelled as     *)
(* its own handler, and the deployment (variable "variant") says which     *)
(* one serves the requests:                                                *)
(*   "v1"    src/api/events.js:5-69      (no membership check)             *)
(*   "main"  src/api/events.js:226-394   (signature, dedup, welcome DM)    *)
(*   "v3"    src/api/events.js:404-533   (dedup, no signature)             *)
(*   "part0" src/unnamed/part_000:5-82   (no signature, no dedup)          *)
(*   "auto"  src/Auto User Group Adder/api/events.js:102-149               *)
(* A request is handled synchronously up to its first outbound call; each  *)
(* await of an outbound call is one more step.  The invocations live in    *)
(* slots; with the one slot used here a request is answered before the     *)
(* next one arrives.                                                       *)
(***************************************************************************)
EXTENDS Integers, Sequences, FiniteSets, TLC

VARIABLES
    variant,            \* which handler file is deployed
    env,                \* process.env: the configuration read at invocation
    clock,              \* ms since the process started (Date.now() - EpochMs)
    recentlyProcessed,  \* the process-wide Map userId -> ms of last acceptance
    members,            \* Slack side: usergroup -> list of member ids
    pc,                 \* per invocation: where the handler is suspended
    loc,                \* per invocation: the handler's local variables
    resp,               \* per invocation: the response written to res
    calls,              \* per invocation: outbound API calls, in order, with outcome
    last,               \* history: the request received by the previous step
    accepted,           \* history: userId -> ms of last acceptance, never swept
    since,              \* history: per invocation, how long before it the
                        \* user's last event was accepted
    nreq                \* history: number of requests received, up to MaxRequests

vars == <<variant, env, clock, recentlyProcessed, members, pc, loc, resp,
          calls, last, accepted, since, nreq>>

----------------------------------------------------------------------------
\* Bounds of the model.

MaxRequests == 3          \* requests received in one behaviour
MaxOverlap == 2           \* requests received in one behaviour of SpecOverlap
EpochMs == 1000000        \* Date.now() when the process starts

\* Invocations that can be suspended at the same time.  In Spec and
\* SpecRequest a request arrives only when no invocation is in flight; in
\* SpecOverlap requests arrive while another invocation awaits a call.
Slots == {1, 2}

----------------------------------------------------------------------------
\* Program constants.

DUPLICATE_WINDOW == 30000
fiveMinutes == 60 * 5
SigLen == 3 + 64          \* "v0=" and the hex digest of a SHA-256

\* Offsets of Date.now() from EpochMs that the clock visits.
TimePoints ==
    {0, DUPLICATE_WINDOW - 1, DUPLICATE_WINDOW, DUPLICATE_WINDOW + 1}

----------------------------------------------------------------------------
\* Slack identifiers.  The code looks at an id's first character and its
\* length only (id.startsWith('U'), id.length > 10), so an id is modelled by
\* those two and a tag that tells ids apart.

Id(first, len, tag) == [first |-> first, len |-> len, tag |-> tag]

UA == Id("U", 11, "a")
UB == Id("U", 11, "b")
UC == Id("U", 11, "c")
botUserId == Id("U", 11, "bot")
WX == Id("W", 11, "w")
Undefined == Id("", 0, "undefined")

Groups == {"G1", "G2"}
Channels == {"C1"}

----------------------------------------------------------------------------
\* Configuration.  A comma-separated environment value is the sequence of its
\* segments; a segment is the id it holds ("" for an empty segment) and
\* whether blanks surround it.

Seg(id, padded) == [id |-> id, padded |-> padded]

trim(seg) == seg.id

RECURSIVE filterBoolean(_)
filterBoolean(s) ==
    IF s = <<>> THEN <<>>
    ELSE IF Head(s) = "" THEN filterBoolean(Tail(s))
         ELSE <<Head(s)>> \o filterBoolean(Tail(s))

\* (process.env.X || '').split(',').map(s => s.trim()).filter(Boolean)
parseIdList(value) == filterBoolean([k \in 1 .. Len(value) |-> trim(value[k])])

EnvGroupValues ==
    { <<Seg("", FALSE)>>,
      <<Seg("G1", FALSE)>>,
      <<Seg("G1", TRUE), Seg("", FALSE), Seg("G2", FALSE)>> }

EnvChannelValues == { <<Seg("", FALSE)>>, <<Seg("C1", FALSE)>> }

Secrets == {"", "s1"}

----------------------------------------------------------------------------
\* Requests.  The raw body is what JSON.parse makes of it: not JSON at all,
\* the JSON value null, or an object with the fields the handlers read.

User(present, id, deleted, restricted) ==
    [present |-> present, id |-> id, deleted |-> deleted,
     is_restricted |-> restricted]

NoUser == User(FALSE, Undefined, FALSE, "absent")

Event(present, type, user) == [present |-> present, type |-> type, user |-> user]

NoEvent == Event(FALSE, "", NoUser)

Body(valid, isObject, type, challenge, event) ==
    [valid |-> valid, isObject |-> isObject, type |-> type,
     challenge |-> challenge, event |-> event]

NotJson == Body(FALSE, FALSE, "", "", NoEvent)
JsonNull == Body(TRUE, FALSE, "", "", NoEvent)
Callback(event) == Body(TRUE, TRUE, "event_callback", "", event)

HandshakeBodies ==
    { Body(TRUE, TRUE, "url_verification", "abc123", NoEvent),
      Body(TRUE, TRUE, "url_verification", "abc123",
           Event(TRUE, "team_join", User(TRUE, UA, FALSE, "absent"))) }

TeamJoinUsers ==
    { NoUser,
      User(TRUE, Undefined, FALSE, "absent"),
      User(TRUE, UA, FALSE, "absent"),
      User(TRUE, UB, FALSE, "false"),
      User(TRUE, UA, TRUE, "true") }

UserChangeUsers ==
    { NoUser, User(TRUE, UB, FALSE, "false") }
    \cup { User(TRUE, UA, d, r) : d \in BOOLEAN, r \in {"true", "false", "absent"} }

EventBodies ==
    { Callback(Event(TRUE, "team_join", u)) : u \in TeamJoinUsers }
    \cup { Callback(Event(TRUE, "user_change", u)) : u \in UserChangeUsers }
    \cup { Callback(Event(TRUE, "message", User(TRUE, UA, FALSE, "false"))),
           Callback(NoEvent),
           Body(TRUE, TRUE, "app_rate_limited", "",
                Event(TRUE, "team_join", User(TRUE, UA, FALSE, "absent"))) }

ParsedBodies == {JsonNull} \cup HandshakeBodies \cup EventBodies
AllBodies == {NotJson} \cup ParsedBodies

\* HMAC-SHA256 is modelled as collision-free: a digest is the key and the
\* text it was computed from.  A signature header is "v0=" and a digest,
\* possibly cut short.
Signature(key, ts, rawBody, len) ==
    [key |-> key, ts |-> ts, body |-> rawBody, len |-> len]

NoSignature == Signature("", 0, NotJson, 0)

Headers(hasTs, ts, hasSig, sig) ==
    [hasTs |-> hasTs, ts |-> ts, hasSig |-> hasSig, sig |-> sig]

TsOffsets == {0 - fiveMinutes - 1, 0 - fiveMinutes, 0, fiveMinutes, fiveMinutes + 1}

SigKinds == {"missing", "correct", "wrongkey", "short", "stale"}

\* The signature header a sender of kind k attaches to (ts, body) when the
\* service's secret is `secret`.
signatureOfKind(k, secret, ts, rawBody) ==
    CASE k = "correct"  -> Signature(secret, ts, rawBody, SigLen)
      [] k = "wrongkey" -> Signature("k0", ts, rawBody, SigLen)
      [] k = "short"    -> Signature(secret, ts, rawBody, SigLen - 1)
      [] k = "stale"    -> Signature(secret, ts - 1, rawBody, SigLen)
      [] OTHER          -> NoSignature

HeadersOfKind(hasTs, off, k, secret, nowSec, rawBody) ==
    Headers(hasTs, IF hasTs THEN nowSec + off ELSE 0, k # "missing",
            signatureOfKind(k, secret, nowSec + off, rawBody))

Request(headers, rawBody) == [headers |-> headers, body |-> rawBody]

\* Every header combination with a few bodies, every body with a few headers.
FewBodies ==
    { NotJson,
      Body(TRUE, TRUE, "url_verification", "abc123", NoEvent),
      Callback(Event(TRUE, "team_join", User(TRUE, UA, FALSE, "absent"))) }

Requests(secret, nowSec) ==
    { Request(HeadersOfKind(TRUE, off, k, secret, nowSec, b), b) :
        off \in TsOffsets, k \in SigKinds, b \in FewBodies }
    \cup { Request(HeadersOfKind(FALSE, 0, "correct", secret, nowSec, b), b) :
             b \in FewBodies }
    \cup { Request(HeadersOfKind(TRUE, 0, k, secret, nowSec, b), b) :
             k \in {"correct", "missing"}, b \in AllBodies }

\* With the framework's body parser in front (req.body), the handler sees a
\* parsed payload and never looks at the headers.
ParsedRequests(secret, nowSec) ==
    { Request(HeadersOfKind(TRUE, 0, k, secret, nowSec, b), b) :
        k \in {"correct", "missing"}, b \in ParsedBodies }

----------------------------------------------------------------------------
\* Signature verification.

\* Date.now() when the clock stands at offset t
DateNow(t) == EpochMs + t
abs(x) == IF x < 0 THEN 0 - x ELSE x

\* Math.floor(Date.now() / 1000)
nowSeconds(ms) == ms \div 1000

\* Faulty variant: the check for a configured secret left out.
secretMissingNever(signingSecret) == FALSE

\* if (!signingSecret) return false;
secretMissing(signingSecret) == signingSecret = ""

\* Faulty variant: the boundary taken exclusive.
outsideReplayWindowExclusive(now, ts) == abs(now - ts) >= fiveMinutes

\* if (Math.abs(now - Number(ts)) > fiveMinutes) return false;
outsideReplayWindow(now, ts) == abs(now - ts) > fiveMinutes

\* `v0=${hmac.digest('hex')}` over `v0:${ts}:${rawBody}`
mySig(signingSecret, ts, rawBody) == Signature(signingSecret, ts, rawBody, SigLen)

\* crypto.timingSafeEqual throws on buffers of different length.
timingSafeEqual(a, b) ==
    IF a.len # b.len THEN "throw" ELSE IF a = b THEN "true" ELSE "false"

\* src/api/events.js:95-118: the comparison is wrapped in try/catch.
\* dateNow is what Date.now() returns.
verifySlackRequest(rawBody, headers, dateNow) ==
    LET signingSecret == env.SLACK_SIGNING_SECRET
        now == nowSeconds(dateNow)
    IN  IF secretMissing(signingSecret) THEN FALSE
        ELSE IF ~headers.hasTs \/ ~headers.hasSig THEN FALSE
        ELSE IF outsideReplayWindow(now, headers.ts) THEN FALSE
        ELSE timingSafeEqual(mySig(signingSecret, headers.ts, rawBody),
                             headers.sig) = "true"

\* src/Auto User Group Adder/api/events.js:18-39: the comparison is not
\* wrapped, so the result is "true", "false" or "throw".
verifySlackRequestAuto(rawBody, headers, dateNow) ==
    LET signingSecret == env.SLACK_SIGNING_SECRET
        now == nowSeconds(dateNow)
    IN  IF secretMissing(signingSecret) THEN "false"
        ELSE IF ~headers.hasTs \/ ~headers.hasSig THEN "false"
        ELSE IF outsideReplayWindow(now, headers.ts) THEN "false"
        ELSE timingSafeEqual(mySig(signingSecret, headers.ts, rawBody),
                             headers.sig)

----------------------------------------------------------------------------
\* Values the handlers build.

\* One outbound API call of an invocation: what was sent and how it ended
\* ("pending" while the handler is suspended on it).
Call(api, group, user, users, text) ==
    [api |-> api, group |-> group, user |-> user, users |-> users,
     text |-> text, outcome |-> "pending", result |-> <<>>]

settle(cs, outcome, result) ==
    [cs EXCEPT ![Len(cs)] = [@ EXCEPT !.outcome = outcome, !.result = result]]

\* An entry of ugResults; updated is "true", "false" or "absent".
UgResult(ug, ok, updated, reason, error) ==
    [usergroup |-> ug, ok |-> ok, updated |-> updated, reason |-> reason,
     error |-> error]

\* res.status(status).send(text) or .json({...}); text is "" for a JSON body
\* and ok is "true", "false" or "absent".
Response(status, text) ==
    [status |-> status, text |-> text, ok |-> "absent", userId |-> Undefined,
     skipped |-> FALSE, reason |-> "", warning |-> "", error |-> "",
     hasResults |-> FALSE, ugResults |-> <<>>, processedEvent |-> "",
     welcomeMessage |-> "absent", hasChannels |-> FALSE, channels |-> <<>>]

NoResponse == Response(0, "")

JsonOk(userId) == [Response(200, "") EXCEPT !.ok = "true", !.userId = userId]

Error500 == [Response(500, "") EXCEPT !.ok = "false", !.error = "err.message"]

\* The local variables of one invocation.
NoLocals ==
    [userId |-> Undefined, triggeredBy |-> "", groups |-> <<>>, i |-> 0,
     updatedUsers |-> <<>>, ugResults |-> <<>>, addedToGroups |-> <<>>,
     dmChannelId |-> "", channels |-> <<>>, j |-> 0, chResults |-> <<>>]

\* What one step of a handler leaves behind for its invocation.
Out(pcv, l, rs, cs) == [pc |-> pcv, loc |-> l, resp |-> rs, calls |-> cs]

\* The locals die with the return.
Reply(rs, cs) == Out("done", NoLocals, rs, cs)

----------------------------------------------------------------------------
\* Classification and deduplication (src/api/events.js:251-290).

\* const userId = user?.id;
userIdOf(event) == IF event.user.present THEN event.user.id ELSE Undefined

\* lines 261-264
triggeredByOf(event) ==
    IF event.type = "team_join" THEN "team_join"
    ELSE IF /\ event.type = "user_change"
            /\ event.user.present
            /\ ~event.user.deleted
            /\ event.user.is_restricted = "false"
         THEN "user_change (reactivated)"
         ELSE ""

\* Faulty variant: the comparison with the window inverted.
isRecentlyProcessedInverted(map, userId, now) ==
    /\ userId \in DOMAIN map
    /\ now - map[userId] >= DUPLICATE_WINDOW

\* lines 274-280
\* Faulty variant: an entry suppresses its user whatever its age.
isRecentlyProcessedForever(map, userId, now) == userId \in DOMAIN map

isRecentlyProcessed(map, userId, now) ==
    /\ userId \in DOMAIN map
    /\ now - map[userId] < DUPLICATE_WINDOW

\* line 283: recentlyProcessed.set(userId, now)
mapSet(map, userId, now) ==
    [k \in DOMAIN map \cup {userId} |-> IF k = userId THEN now ELSE map[k]]

\* lines 286-290
\* Faulty variant: nothing is ever swept.
isExpiredNever(now, timestamp) == FALSE

isExpired(now, timestamp) == now - timestamp > DUPLICATE_WINDOW

cleanUp(map, now) ==
    [k \in {x \in DOMAIN map : ~isExpired(now, map[x])} |-> map[k]]

EmptyMap == [k \in {} |-> 0]

\* Faulty variant: the stamp is left to a later step.
dedupAndStartStampLater(l, map, now) ==
    IF isRecentlyProcessed(map, l.userId, now)
    THEN [out |-> Reply([JsonOk(l.userId) EXCEPT !.skipped = TRUE,
                                                 !.reason = "recently_processed"],
                        <<>>),
          map |-> map, stamped |-> FALSE]
    ELSE [out |-> IF Len(l.groups) = 0
                  THEN Reply([JsonOk(l.userId) EXCEPT
                                 !.warning = "No usergroups configured"], <<>>)
                  ELSE Out("users.info", l, NoResponse,
                           <<Call("users.info", "", l.userId, <<>>, <<>>)>>),
          map |-> map,
          stamped |-> TRUE]

\* Faulty variant: a skipped request stamps the map again.
dedupAndStartRestamp(l, map, now) ==
    IF isRecentlyProcessed(map, l.userId, now)
    THEN [out |-> Reply([JsonOk(l.userId) EXCEPT !.skipped = TRUE,
                                                 !.reason = "recently_processed"],
                        <<>>),
          map |-> mapSet(map, l.userId, now), stamped |-> FALSE]
    ELSE [out |-> IF Len(l.groups) = 0
                  THEN Reply([JsonOk(l.userId) EXCEPT
                                 !.warning = "No usergroups configured"], <<>>)
                  ELSE Out("users.info", l, NoResponse,
                           <<Call("users.info", "", l.userId, <<>>, <<>>)>>),
          map |-> cleanUp(mapSet(map, l.userId, now), now),
          stamped |-> TRUE]

\* lines 271-300: the dedup step and the empty-list check, the same in
\* src/api/events.js:432-461.  Gives the invocation's outcome, the new map
\* and whether the event was accepted (stamped).
dedupAndStart(l, map, now) ==
    IF isRecentlyProcessed(map, l.userId, now)
    THEN [out |-> Reply([JsonOk(l.userId) EXCEPT !.skipped = TRUE,
                                                 !.reason = "recently_processed"],
                        <<>>),
          map |-> map, stamped |-> FALSE]
    ELSE [out |-> IF Len(l.groups) = 0
                  THEN Reply([JsonOk(l.userId) EXCEPT
                                 !.warning = "No usergroups configured"], <<>>)
                  ELSE Out("users.info", l, NoResponse,
                           <<Call("users.info", "", l.userId, <<>>, <<>>)>>),
          map |-> cleanUp(mapSet(map, l.userId, now), now),
          stamped |-> TRUE]

\* Faulty variant: a request that stops before the dedup step empties the map.
UnchangedCleared(o, map) == [out |-> o, map |-> EmptyMap, stamped |-> FALSE]

Unchanged(o, map) == [out |-> o, map |-> map, stamped |-> FALSE]

----------------------------------------------------------------------------
\* The per-group loop and what follows it (src/api/events.js:322-389).

Includes(s, x) == \E k \in 1 .. Len(s) : s[k] = x

\* lines 339-345: id && id.startsWith('U') && id.length > 10
isValidUserId(id) == id # Undefined /\ id.first = "U" /\ id.len > 10

\* Faulty variant: the fetched list passed on unfiltered.
cleanCurrentUsersKeepAll(users) == users

cleanCurrentUsers(users) == SelectSeq(users, isValidUserId)

listCall(ug) == Call("usergroups.users.list", ug, Undefined, <<>>, <<>>)
updateCall(ug, users) == Call("usergroups.users.update", ug, Undefined, users, <<>>)

pushResult(l, entry) == [l EXCEPT !.ugResults = Append(@, entry)]

alreadyAMember(ug) == UgResult(ug, TRUE, "false", "already a member", "")
failed(ug) == UgResult(ug, FALSE, "absent", "", "err")

\* lines 371-389
\* Faulty variant: a welcome message that was not delivered fails the request.
respondMainWelcomeFatal(l, cs, welcome) ==
    IF welcome = "ok:false"
    THEN Reply(Error500, cs)
    ELSE Reply([JsonOk(l.userId) EXCEPT !.hasResults = TRUE,
                                        !.ugResults = l.ugResults,
                                        !.processedEvent = l.triggeredBy,
                                        !.welcomeMessage = welcome],
               cs)

respondMain(l, cs, welcome) ==
    Reply([JsonOk(l.userId) EXCEPT !.hasResults = TRUE, !.ugResults = l.ugResults,
                                   !.processedEvent = l.triggeredBy,
                                   !.welcomeMessage = welcome],
          cs)

\* lines 371-376
afterLoopMain(l, cs) ==
    IF Len(l.addedToGroups) > 0
    THEN Out("conversations.open", l, NoResponse,
             Append(cs, Call("conversations.open", "", l.userId, <<>>, <<>>)))
    ELSE respondMain(l, cs, "null")

\* The loop head: the next group's list call, or the end of the loop.
nextGroupMain(l, cs) ==
    IF l.i < Len(l.groups)
    THEN Out("usergroups.users.list", [l EXCEPT !.i = l.i + 1], NoResponse,
             Append(cs, listCall(l.groups[l.i + 1])))
    ELSE afterLoopMain(l, cs)

\* lines 330-355, after the list call returned `users`
listReturnedMain(l, cs, users) ==
    LET ug == l.groups[l.i] IN
    IF Includes(users, l.userId)
    THEN nextGroupMain(pushResult(l, alreadyAMember(ug)), cs)
    ELSE LET updatedUsers == Append(cleanCurrentUsers(users), l.userId)
         IN  Out("usergroups.users.update",
                 [l EXCEPT !.updatedUsers = updatedUsers], NoResponse,
                 Append(cs, updateCall(ug, updatedUsers)))

\* lines 365-368
\* Faulty variant: a failed group is tried again.
caughtMainRetry(l, cs) == nextGroupMain([l EXCEPT !.i = l.i - 1], cs)

caughtMain(l, cs) == nextGroupMain(pushResult(l, failed(l.groups[l.i])), cs)

\* lines 357-363
updateReturnedMain(l, cs, ok) ==
    LET ug == l.groups[l.i] IN
    IF ok
    THEN nextGroupMain(
             [pushResult(l, UgResult(ug, TRUE, "true", "", ""))
                 EXCEPT !.addedToGroups = Append(@, ug)], cs)
    ELSE nextGroupMain(pushResult(l, failed(ug)), cs)

\* The synchronous part of the handler, lines 229-304: from the raw body to
\* the first outbound call or the response.
handlerStart(req, map, dateNow) ==
    LET payload == req.body
        event == payload.event
        l == [NoLocals EXCEPT !.userId = userIdOf(event),
                              !.triggeredBy = triggeredByOf(event),
                              !.groups = parseIdList(env.USERGROUP_IDS)]
    IN  IF ~verifySlackRequest(req.body, req.headers, dateNow)
        THEN Unchanged(Reply(Response(401, "verification failed"), <<>>), map)
        ELSE IF ~payload.valid \/ ~payload.isObject
        THEN Unchanged(Reply(Error500, <<>>), map)
        ELSE IF payload.type = "url_verification" /\ payload.challenge # ""
        THEN Unchanged(Reply(Response(200, payload.challenge), <<>>), map)
        ELSE IF ~event.present
        THEN Unchanged(Reply(Response(200, "No event"), <<>>), map)
        ELSE IF l.triggeredBy = ""
        THEN Unchanged(Reply(Response(200, "Skipped"), <<>>), map)
        ELSE dedupAndStart(l, map, dateNow)

----------------------------------------------------------------------------
\* src/api/events.js:404-533: the variant with the dedup map and without
\* signature check, handshake and welcome message.  It reads req.body, the
\* payload the framework parsed.

\* lines 498-505: the bot's own id is removed as well
isValidUserIdV3(id) == isValidUserId(id) /\ id # botUserId

cleanCurrentUsersV3(users) == SelectSeq(users, isValidUserIdV3)

\* lines 526-528
respondV3(l, cs) ==
    Reply([JsonOk(l.userId) EXCEPT !.hasResults = TRUE, !.ugResults = l.ugResults,
                                   !.processedEvent = l.triggeredBy], cs)

nextGroupV3(l, cs) ==
    IF l.i < Len(l.groups)
    THEN Out("usergroups.users.list", [l EXCEPT !.i = l.i + 1], NoResponse,
             Append(cs, listCall(l.groups[l.i + 1])))
    ELSE respondV3(l, cs)

\* lines 488-515
listReturnedV3(l, cs, users) ==
    LET ug == l.groups[l.i] IN
    IF Includes(users, l.userId)
    THEN nextGroupV3(pushResult(l, alreadyAMember(ug)), cs)
    ELSE LET updatedUsers == Append(cleanCurrentUsersV3(users), l.userId)
         IN  Out("usergroups.users.update",
                 [l EXCEPT !.updatedUsers = updatedUsers], NoResponse,
                 Append(cs, updateCall(ug, updatedUsers)))

\* lines 520-523
caughtV3(l, cs) == nextGroupV3(pushResult(l, failed(l.groups[l.i])), cs)

\* lines 517-518: ok is the result's ok, updated is always true
updateReturnedV3(l, cs, ok) ==
    nextGroupV3(pushResult(l, UgResult(l.groups[l.i], ok, "true", "", "")), cs)

\* lines 406-465
handlerStartV3(req, map, dateNow) ==
    LET payload == req.body
        event == payload.event
        l == [NoLocals EXCEPT !.userId = userIdOf(event),
                              !.triggeredBy = triggeredByOf(event),
                              !.groups = parseIdList(env.USERGROUP_IDS)]
    IN  IF ~payload.isObject
        THEN Unchanged(Reply(Error500, <<>>), map)
        ELSE IF ~event.present
        THEN Unchanged(Reply(Response(200, "No event"), <<>>), map)
        ELSE IF l.triggeredBy = ""
        THEN Unchanged(Reply(Response(200, "Skipped"), <<>>), map)
        ELSE dedupAndStart(l, map, dateNow)

----------------------------------------------------------------------------
\* src/unnamed/part_000: no signature check, no dedup map, no users.info.

\* Array.from(new Set(xs)): first occurrences, in order
RECURSIVE uniq(_)
uniq(xs) ==
    IF xs = <<>> THEN <<>>
    ELSE LET front == uniq(SubSeq(xs, 1, Len(xs) - 1))
             x == xs[Len(xs)]
         IN  IF Includes(front, x) THEN front ELSE Append(front, x)

\* lines 75-77
respondPart0(l, cs) ==
    Reply([JsonOk(l.userId) EXCEPT !.hasResults = TRUE, !.ugResults = l.ugResults],
          cs)

nextGroupPart0(l, cs) ==
    IF l.i < Len(l.groups)
    THEN Out("usergroups.users.list", [l EXCEPT !.i = l.i + 1], NoResponse,
             Append(cs, listCall(l.groups[l.i + 1])))
    ELSE respondPart0(l, cs)

\* lines 48-65
listReturnedPart0(l, cs, users) ==
    LET ug == l.groups[l.i] IN
    IF Includes(users, l.userId)
    THEN nextGroupPart0(pushResult(l, alreadyAMember(ug)), cs)
    ELSE LET updatedUsers == uniq(Append(users, l.userId))
         IN  Out("usergroups.users.update",
                 [l EXCEPT !.updatedUsers = updatedUsers], NoResponse,
                 Append(cs, updateCall(ug, updatedUsers)))

\* lines 69-72
caughtPart0(l, cs) == nextGroupPart0(pushResult(l, failed(l.groups[l.i])), cs)

\* lines 67-68: ok and error are the result's, updated is always true
updateReturnedPart0(l, cs, ok) ==
    nextGroupPart0(pushResult(l, UgResult(l.groups[l.i], ok, "true", "",
                                          IF ok THEN "" ELSE "err")), cs)

\* lines 7-48
handlerStartPart0(req) ==
    LET payload == req.body
        event == payload.event
        l == [NoLocals EXCEPT !.userId = userIdOf(event),
                              !.triggeredBy = triggeredByOf(event),
                              !.groups = parseIdList(env.USERGROUP_IDS)]
    IN  IF ~payload.isObject THEN Reply(Error500, <<>>)
        ELSE IF ~event.present THEN Reply(Response(200, "No event"), <<>>)
        ELSE IF l.triggeredBy = "" THEN Reply(Response(200, "Skipped"), <<>>)
        ELSE IF Len(l.groups) = 0
        THEN Reply([JsonOk(l.userId) EXCEPT !.warning = "No usergroups configured"],
                   <<>>)
        ELSE nextGroupPart0(l, <<>>)

----------------------------------------------------------------------------
\* src/api/events.js:5-69: the first handler.  The groups are the values of
\* USERGROUP_1 and USERGROUP_2, untrimmed; there is no check for an empty
\* list and none for the user being a member already.

\* [process.env.USERGROUP_1, process.env.USERGROUP_2].filter(Boolean)
groupsV1(values) == filterBoolean([k \in 1 .. Len(values) |-> values[k].id])

\* line 64
respondV1(l, cs) ==
    Reply([JsonOk(l.userId) EXCEPT !.hasResults = TRUE, !.ugResults = l.ugResults],
          cs)

nextGroupV1(l, cs) ==
    IF l.i < Len(l.groups)
    THEN Out("usergroups.users.list", [l EXCEPT !.i = l.i + 1], NoResponse,
             Append(cs, listCall(l.groups[l.i + 1])))
    ELSE respondV1(l, cs)

\* lines 42-52: the update is issued whatever the fetched list holds
listReturnedV1(l, cs, users) ==
    LET updatedUsers == uniq(Append(users, l.userId))
    IN  Out("usergroups.users.update",
            [l EXCEPT !.updatedUsers = updatedUsers], NoResponse,
            Append(cs, updateCall(l.groups[l.i], updatedUsers)))

\* lines 56-59
caughtV1(l, cs) == nextGroupV1(pushResult(l, failed(l.groups[l.i])), cs)

\* lines 54-55: ok and error are the result's, there is no updated field
updateReturnedV1(l, cs, ok) ==
    nextGroupV1(pushResult(l, UgResult(l.groups[l.i], ok, "absent", "",
                                       IF ok THEN "" ELSE "err")), cs)

\* lines 7-39
handlerStartV1(req) ==
    LET payload == req.body
        event == payload.event
        l == [NoLocals EXCEPT !.userId = userIdOf(event),
                              !.triggeredBy = triggeredByOf(event),
                              !.groups = groupsV1(env.USERGROUP_IDS)]
    IN  IF ~payload.isObject THEN Reply(Error500, <<>>)
        ELSE IF ~event.present THEN Reply(Response(200, "No event"), <<>>)
        ELSE IF l.triggeredBy = "" THEN Reply(Response(200, "Skipped"), <<>>)
        ELSE nextGroupV1(l, <<>>)

----------------------------------------------------------------------------
\* src/Auto User Group Adder/api/events.js: signature check, team_join only,
\* channel invites, calls through fetch (slackApi), nothing caught per group.

ChResult(ch, ok, error) == [channel |-> ch, ok |-> ok, error |-> error]

\* line 140; usergroups and channels are {skipped:true} when nothing is
\* configured (hasResults, hasChannels FALSE)
respondAuto(l, cs) ==
    Reply([JsonOk(l.userId) EXCEPT !.hasResults = Len(l.groups) > 0,
                                   !.ugResults = l.ugResults,
                                   !.hasChannels = Len(l.channels) > 0,
                                   !.channels = l.chResults], cs)

\* inviteUserToChannels, lines 83-100: the loop head
nextChannelAuto(l, cs) ==
    IF l.j < Len(l.channels)
    THEN Out("conversations.invite", [l EXCEPT !.j = l.j + 1], NoResponse,
             Append(cs, Call("conversations.invite", l.channels[l.j + 1], l.userId,
                             <<>>, <<>>)))
    ELSE respondAuto(l, cs)

\* lines 91-97
inviteReturnedAuto(l, cs, ok) ==
    nextChannelAuto([l EXCEPT !.chResults =
                        Append(@, ChResult(l.channels[l.j], ok,
                                           IF ok THEN "" ELSE "err"))], cs)

\* addUserToUsergroups, lines 60-80: the loop head; after the loop the
\* handler goes on to inviteUserToChannels (line 135)
nextGroupAuto(l, cs) ==
    IF l.i < Len(l.groups)
    THEN Out("usergroups.users.list", [l EXCEPT !.i = l.i + 1], NoResponse,
             Append(cs, listCall(l.groups[l.i + 1])))
    ELSE nextChannelAuto(l, cs)

\* lines 62-73
listReturnedAuto(l, cs, ok, users) ==
    LET ug == l.groups[l.i] IN
    IF ~ok
    THEN nextGroupAuto(pushResult(l, failed(ug)), cs)
    ELSE IF Includes(users, l.userId)
    THEN nextGroupAuto(pushResult(l, alreadyAMember(ug)), cs)
    ELSE LET newUsers == Append(users, l.userId)
         IN  Out("usergroups.users.update",
                 [l EXCEPT !.updatedUsers = newUsers], NoResponse,
                 Append(cs, updateCall(ug, newUsers)))

\* lines 74-78
updateReturnedAuto(l, cs, ok) ==
    nextGroupAuto(pushResult(l, IF ok THEN UgResult(l.groups[l.i], TRUE, "true", "", "")
                                ELSE failed(l.groups[l.i])),
                  cs)

\* lines 145-148: a rejected await ends the handler in its catch
thrownAuto(l, cs) == Reply(Error500, cs)

\* lines 104-134
moduleExportsStart(req, dateNow) ==
    LET payload == req.body
        event == payload.event
        verified == verifySlackRequestAuto(req.body, req.headers, dateNow)
        l == [NoLocals EXCEPT !.userId = event.user.id,
                              !.groups = parseIdList(env.USERGROUP_IDS),
                              !.channels = parseIdList(env.CHANNEL_IDS)]
    IN  IF verified = "throw" THEN Reply(Error500, <<>>)
        ELSE IF verified = "false"
        THEN Reply(Response(401, "verification failed"), <<>>)
        ELSE IF ~payload.valid \/ ~payload.isObject
        THEN Reply(Error500, <<>>)
        ELSE IF payload.type = "url_verification" /\ payload.challenge # ""
        THEN Reply(Response(200, payload.challenge), <<>>)
        ELSE IF payload.type # "event_callback"
        THEN Reply(Response(200, "ok"), <<>>)
        ELSE IF /\ event.present /\ event.type = "team_join"
                /\ event.user.present /\ event.user.id # Undefined
        THEN nextGroupAuto(l, <<>>)
        ELSE Reply(Response(200, "ignored"), <<>>)

----------------------------------------------------------------------------
\* The state machine.

Variants == {"v1", "main", "v3", "part0", "auto"}

Env(secret, groups, channels) ==
    [SLACK_SIGNING_SECRET |-> secret, USERGROUP_IDS |-> groups,
     CHANNEL_IDS |-> channels]

\* The configurations a deployment of each variant reads.
\* For "v1" USERGROUP_IDS holds the values of USERGROUP_1 and USERGROUP_2.
EnvGroupValuesV1 ==
    { <<Seg("", FALSE), Seg("", FALSE)>>,
      <<Seg("G1", FALSE), Seg("", FALSE)>>,
      <<Seg("G1", FALSE), Seg("G2", FALSE)>> }

EnvsOf(v) ==
    IF v = "auto"
    THEN { Env(s, g, c) : s \in Secrets, g \in EnvGroupValues, c \in EnvChannelValues }
    ELSE IF v = "v1"
    THEN { Env("s1", g, <<Seg("", FALSE)>>) : g \in EnvGroupValuesV1 }
    ELSE { Env(s, g, <<Seg("", FALSE)>>) : s \in Secrets, g \in EnvGroupValues }

\* The usergroups' members on the Slack side when the service starts.
InitMembers == [g \in Groups |-> IF g = "G1" THEN <<UB, WX, UB>> ELSE <<botUserId, UA>>]

NoLast == [slot |-> 0, req |-> Request(Headers(FALSE, 0, FALSE, NoSignature), NotJson),
           now |-> 0, prev |-> 0 - 1, stamped |-> FALSE]

Init ==
    /\ variant \in Variants
    /\ env \in EnvsOf(variant)
    /\ clock = 0
    /\ recentlyProcessed = EmptyMap
    /\ members = InitMembers
    /\ pc = [r \in Slots |-> "idle"]
    /\ loc = [r \in Slots |-> NoLocals]
    /\ resp = [r \in Slots |-> NoResponse]
    /\ calls = [r \in Slots |-> <<>>]
    /\ last = NoLast
    /\ accepted = EmptyMap
    /\ since = [r \in Slots |-> "none"]
    /\ nreq = 0

\* The invocation in slot r continues as o says.  An invocation that has
\* responded is gone with the next step: resp and calls of a slot show the
\* response of the previous step only.
Becomes(r, o) ==
    /\ pc' = [q \in Slots |-> IF q = r THEN o.pc
                              ELSE IF pc[q] = "done" THEN "idle" ELSE pc[q]]
    /\ loc' = [loc EXCEPT ![r] = o.loc]
    /\ resp' = [q \in Slots |-> IF q = r THEN o.resp
                                ELSE IF pc[q] = "done" THEN NoResponse ELSE resp[q]]
    /\ calls' = [q \in Slots |-> IF q = r THEN o.calls
                                 ELSE IF pc[q] = "done" THEN <<>> ELSE calls[q]]

\* History of a request received at clock offset t: who it was for and when
\* that user's last event was accepted (-1: never).
Received(r, req, t, stamped) ==
    LET u == userIdOf(req.body.event) IN
    /\ clock' = t
    /\ last' = [slot |-> r, req |-> req, now |-> DateNow(t),
                prev |-> IF u \in DOMAIN accepted THEN accepted[u] ELSE 0 - 1,
                stamped |-> stamped]
    /\ accepted' = IF stamped
                   THEN [k \in DOMAIN accepted \cup {u} |->
                           IF k = u THEN DateNow(t) ELSE accepted[k]]
                   ELSE accepted
    /\ since' = [q \in Slots |->
                   IF q = r
                   THEN IF ~stamped THEN "none"
                        ELSE IF u \notin DOMAIN accepted THEN "never"
                        ELSE IF DateNow(t) - accepted[u] < DUPLICATE_WINDOW
                             THEN "within" ELSE "window passed"
                   ELSE IF pc[q] \in {"idle", "done"} THEN "none" ELSE since[q]]
    /\ nreq' = IF nreq < MaxRequests THEN nreq + 1 ELSE nreq

Resumed == last' = NoLast /\ UNCHANGED <<accepted, since, nreq, clock>>

\* A new invocation takes the first slot that is not in flight.
Free(r) ==
    /\ pc[r] \in {"idle", "done"}
    /\ \A q \in Slots : q < r => pc[q] \notin {"idle", "done"}

Suspended(r, v, api) == variant = v /\ pc[r] = api

\* Outcomes of a call made through @slack/web-api's WebClient: the promise
\* resolves with the result or rejects (an ok:false reply rejects too).
WebClientOutcomes == {"ok", "throw"}

\* Outcomes of slackApi (fetch): a reply with ok true or false, or a rejection.
slackApiOutcomes == {"ok", "error", "throw"}

\* Slack replaces the group's members by the list sent.
Replaced(r, outcome) ==
    members' = IF outcome = "ok"
               THEN [members EXCEPT ![loc[r].groups[loc[r].i]] = loc[r].updatedUsers]
               ELSE members

CurrentUsers(r) == members[loc[r].groups[loc[r].i]]

\* ---- src/api/events.js:226-394 ----

\* lines 226-304: a request arrives and is handled up to the first await of
\* an outbound call.
handlerOn(r, req, t) ==
    /\ variant = "main"
    /\ Free(r)
    /\ LET h == handlerStart(req, recentlyProcessed, DateNow(t)) IN
       /\ Becomes(r, h.out)
       /\ recentlyProcessed' = h.map
       /\ Received(r, req, t, h.stamped)
    /\ UNCHANGED <<variant, env, members>>

\* Faulty variant: the deleted flag of the user info is not looked at.
usersInfoReturnsDeletedIgnored(r) ==
    /\ Suspended(r, "main", "users.info")
    /\ \E outcome \in {"ok", "deleted", "throw"} :
         Becomes(r, nextGroupMain(loc[r], settle(calls[r], outcome, <<>>)))
    /\ Resumed
    /\ UNCHANGED <<variant, env, recentlyProcessed, members>>

\* lines 303-320: users.info returns
usersInfoReturns(r) ==
    /\ Suspended(r, "main", "users.info")
    /\ \E outcome \in {"ok", "deleted", "throw"} :
         LET cs == settle(calls[r], outcome, <<>>) IN
         Becomes(r, IF outcome = "deleted"
                    THEN Reply([JsonOk(loc[r].userId) EXCEPT
                                   !.warning = "User is deleted"], cs)
                    ELSE nextGroupMain(loc[r], cs))
    /\ Resumed
    /\ UNCHANGED <<variant, env, recentlyProcessed, members>>

\* Faulty variant of usergroupsUsersListReturns: a failed list-members call
\* takes the user's dedup entry back.
usergroupsUsersListReturnsRollback(r) ==
    /\ Suspended(r, "main", "usergroups.users.list")
    /\ \E outcome \in WebClientOutcomes :
         /\ Becomes(r, IF outcome = "ok"
                       THEN listReturnedMain(loc[r], settle(calls[r], "ok", CurrentUsers(r)),
                                             CurrentUsers(r))
                       ELSE caughtMain(loc[r], settle(calls[r], outcome, <<>>)))
         /\ recentlyProcessed' =
               IF outcome = "ok" THEN recentlyProcessed
               ELSE [k \in DOMAIN recentlyProcessed \ {loc[r].userId} |->
                       recentlyProcessed[k]]
    /\ Resumed
    /\ UNCHANGED <<variant, env, members>>

\* lines 330-355: usergroups.users.list returns
usergroupsUsersListReturns(r) ==
    /\ Suspended(r, "main", "usergroups.users.list")
    /\ \E outcome \in WebClientOutcomes :
         Becomes(r, IF outcome = "ok"
                    THEN listReturnedMain(loc[r], settle(calls[r], "ok", CurrentUsers(r)),
                                          CurrentUsers(r))
                    ELSE caughtMain(loc[r], settle(calls[r], outcome, <<>>)))
    /\ Resumed
    /\ UNCHANGED <<variant, env, recentlyProcessed, members>>

\* lines 352-368: usergroups.users.update returns
usergroupsUsersUpdateReturns(r) ==
    /\ Suspended(r, "main", "usergroups.users.update")
    /\ \E outcome \in WebClientOutcomes :
         /\ Becomes(r, IF outcome = "throw"
                       THEN caughtMain(loc[r], settle(calls[r], outcome, <<>>))
                       ELSE updateReturnedMain(loc[r], settle(calls[r], outcome, <<>>),
                                               outcome = "ok"))
         /\ Replaced(r, outcome)
    /\ Resumed
    /\ UNCHANGED <<variant, env, recentlyProcessed>>

\* sendWelcomeMessage, lines 143-210: conversations.open returns, and the
\* message is posted to the DM channel or, failing that, to the user id.
conversationsOpenReturns(r) ==
    /\ Suspended(r, "main", "conversations.open")
    /\ \E outcome \in WebClientOutcomes :
         LET l == [loc[r] EXCEPT !.dmChannelId =
                                    IF outcome = "ok" THEN "dmChannel.channel.id"
                                    ELSE "userId"]
         IN  Becomes(r, Out("chat.postMessage", l, NoResponse,
                            Append(settle(calls[r], outcome, <<>>),
                                   Call("chat.postMessage", l.dmChannelId, l.userId,
                                        <<>>, l.addedToGroups))))
    /\ Resumed
    /\ UNCHANGED <<variant, env, recentlyProcessed, members>>

\* sendWelcomeMessage, lines 212-223, and the response, lines 378-389
chatPostMessageReturns(r) ==
    /\ Suspended(r, "main", "chat.postMessage")
    /\ \E outcome \in WebClientOutcomes :
         Becomes(r, respondMain(loc[r], settle(calls[r], outcome, <<>>),
                                IF outcome = "ok" THEN "ok:true" ELSE "ok:false"))
    /\ Resumed
    /\ UNCHANGED <<variant, env, recentlyProcessed, members>>

\* Faulty variant of usersInfoReturnsV3: a rejected users.info ends the request.
usersInfoReturnsV3ThrowFatal(r) ==
    /\ Suspended(r, "v3", "users.info")
    /\ \E outcome \in {"ok", "deleted", "throw"} :
         LET cs == settle(calls[r], outcome, <<>>) IN
         Becomes(r, IF outcome = "deleted"
                    THEN Reply([JsonOk(loc[r].userId) EXCEPT
                                   !.warning = "User is deleted"], cs)
                    ELSE IF outcome = "throw" THEN Reply(Error500, cs)
                    ELSE nextGroupV3(loc[r], cs))
    /\ Resumed
    /\ UNCHANGED <<variant, env, recentlyProcessed, members>>

\* ---- src/api/events.js:404-533 ----

handlerV3On(r, req, t) ==
    /\ variant = "v3"
    /\ Free(r)
    /\ LET h == handlerStartV3(req, recentlyProcessed, DateNow(t)) IN
       /\ Becomes(r, h.out)
       /\ recentlyProcessed' = h.map
       /\ Received(r, req, t, h.stamped)
    /\ UNCHANGED <<variant, env, members>>

\* lines 464-480
usersInfoReturnsV3(r) ==
    /\ Suspended(r, "v3", "users.info")
    /\ \E outcome \in {"ok", "deleted", "throw"} :
         LET cs == settle(calls[r], outcome, <<>>) IN
         Becomes(r, IF outcome = "deleted"
                    THEN Reply([JsonOk(loc[r].userId) EXCEPT
                                   !.warning = "User is deleted"], cs)
                    ELSE nextGroupV3(loc[r], cs))
    /\ Resumed
    /\ UNCHANGED <<variant, env, recentlyProcessed, members>>

\* lines 488-515
usergroupsUsersListReturnsV3(r) ==
    /\ Suspended(r, "v3", "usergroups.users.list")
    /\ \E outcome \in WebClientOutcomes :
         Becomes(r, IF outcome = "ok"
                    THEN listReturnedV3(loc[r], settle(calls[r], "ok", CurrentUsers(r)),
                                        CurrentUsers(r))
                    ELSE caughtV3(loc[r], settle(calls[r], outcome, <<>>)))
    /\ Resumed
    /\ UNCHANGED <<variant, env, recentlyProcessed, members>>

\* lines 512-523
usergroupsUsersUpdateReturnsV3(r) ==
    /\ Suspended(r, "v3", "usergroups.users.update")
    /\ \E outcome \in WebClientOutcomes :
         /\ Becomes(r, IF outcome = "throw"
                       THEN caughtV3(loc[r], settle(calls[r], outcome, <<>>))
                       ELSE updateReturnedV3(loc[r], settle(calls[r], outcome, <<>>),
                                             outcome = "ok"))
         /\ Replaced(r, outcome)
    /\ Resumed
    /\ UNCHANGED <<variant, env, recentlyProcessed>>

\* ---- src/unnamed/part_000 ----

handlerPart0On(r, req, t) ==
    /\ variant = "part0"
    /\ Free(r)
    /\ Becomes(r, handlerStartPart0(req))
    /\ Received(r, req, t, FALSE)
    /\ UNCHANGED <<variant, env, recentlyProcessed, members>>

\* lines 48-65
usergroupsUsersListReturnsPart0(r) ==
    /\ Suspended(r, "part0", "usergroups.users.list")
    /\ \E outcome \in WebClientOutcomes :
         Becomes(r, IF outcome = "ok"
                    THEN listReturnedPart0(loc[r],
                                           settle(calls[r], "ok", CurrentUsers(r)),
                                           CurrentUsers(r))
                    ELSE caughtPart0(loc[r], settle(calls[r], outcome, <<>>)))
    /\ Resumed
    /\ UNCHANGED <<variant, env, recentlyProcessed, members>>

\* lines 62-72
usergroupsUsersUpdateReturnsPart0(r) ==
    /\ Suspended(r, "part0", "usergroups.users.update")
    /\ \E outcome \in WebClientOutcomes :
         /\ Becomes(r, IF outcome = "throw"
                       THEN caughtPart0(loc[r], settle(calls[r], outcome, <<>>))
                       ELSE updateReturnedPart0(loc[r], settle(calls[r], outcome, <<>>),
                                                outcome = "ok"))
         /\ Replaced(r, outcome)
    /\ Resumed
    /\ UNCHANGED <<variant, env, recentlyProcessed>>

\* ---- src/api/events.js:5-69 ----

handlerV1On(r, req, t) ==
    /\ variant = "v1"
    /\ Free(r)
    /\ Becomes(r, handlerStartV1(req))
    /\ Received(r, req, t, req.body.isObject /\ req.body.event.present
                              /\ triggeredByOf(req.body.event) # "")
    /\ UNCHANGED <<variant, env, recentlyProcessed, members>>

\* lines 42-52
usergroupsUsersListReturnsV1(r) ==
    /\ Suspended(r, "v1", "usergroups.users.list")
    /\ \E outcome \in WebClientOutcomes :
         Becomes(r, IF outcome = "ok"
                    THEN listReturnedV1(loc[r], settle(calls[r], "ok", CurrentUsers(r)),
                                        CurrentUsers(r))
                    ELSE caughtV1(loc[r], settle(calls[r], outcome, <<>>)))
    /\ Resumed
    /\ UNCHANGED <<variant, env, recentlyProcessed, members>>

\* lines 49-59
usergroupsUsersUpdateReturnsV1(r) ==
    /\ Suspended(r, "v1", "usergroups.users.update")
    /\ \E outcome \in WebClientOutcomes :
         /\ Becomes(r, IF outcome = "throw"
                       THEN caughtV1(loc[r], settle(calls[r], outcome, <<>>))
                       ELSE updateReturnedV1(loc[r], settle(calls[r], outcome, <<>>),
                                             outcome = "ok"))
         /\ Replaced(r, outcome)
    /\ Resumed
    /\ UNCHANGED <<variant, env, recentlyProcessed>>

\* ---- src/Auto User Group Adder/api/events.js ----

moduleExportsOn(r, req, t) ==
    /\ variant = "auto"
    /\ Free(r)
    /\ Becomes(r, moduleExportsStart(req, DateNow(t)))
    /\ Received(r, req, t, FALSE)
    /\ UNCHANGED <<variant, env, recentlyProcessed, members>>

\* lines 62-73
usergroupsUsersListReturnsAuto(r) ==
    /\ Suspended(r, "auto", "usergroups.users.list")
    /\ \E outcome \in slackApiOutcomes :
         Becomes(r, IF outcome = "throw"
                    THEN thrownAuto(loc[r], settle(calls[r], outcome, <<>>))
                    ELSE IF outcome = "ok"
                    THEN listReturnedAuto(loc[r],
                                          settle(calls[r], "ok", CurrentUsers(r)),
                                          TRUE, CurrentUsers(r))
                    ELSE listReturnedAuto(loc[r], settle(calls[r], outcome, <<>>),
                                          FALSE, <<>>))
    /\ Resumed
    /\ UNCHANGED <<variant, env, recentlyProcessed, members>>

\* lines 73-78
usergroupsUsersUpdateReturnsAuto(r) ==
    /\ Suspended(r, "auto", "usergroups.users.update")
    /\ \E outcome \in slackApiOutcomes :
         /\ Becomes(r, IF outcome = "throw"
                       THEN thrownAuto(loc[r], settle(calls[r], outcome, <<>>))
                       ELSE updateReturnedAuto(loc[r], settle(calls[r], outcome, <<>>),
                                               outcome = "ok"))
         /\ Replaced(r, outcome)
    /\ Resumed
    /\ UNCHANGED <<variant, env, recentlyProcessed>>

\* lines 91-97: a rejection is caught by .catch and counts as ok:false
conversationsInviteReturnsAuto(r) ==
    /\ Suspended(r, "auto", "conversations.invite")
    /\ \E outcome \in slackApiOutcomes :
         Becomes(r, inviteReturnedAuto(loc[r], settle(calls[r], outcome, <<>>),
                                       outcome = "ok"))
    /\ Resumed
    /\ UNCHANGED <<variant, env, recentlyProcessed, members>>

\* ---- the requests the service receives ----

\* Correctly signed, fresh requests with the bodies the handlers act on,
\* and an unsigned one.
CoreBodies ==
    { Callback(Event(TRUE, "team_join", User(TRUE, UA, FALSE, "absent"))),
      Callback(Event(TRUE, "team_join", User(TRUE, UB, FALSE, "false"))),
      Callback(Event(TRUE, "team_join", NoUser)),
      Callback(Event(TRUE, "user_change", User(TRUE, UB, FALSE, "false"))),
      Callback(Event(TRUE, "user_change", User(TRUE, UA, FALSE, "true"))),
      Callback(NoEvent),
      Body(TRUE, TRUE, "url_verification", "abc123",
           Event(TRUE, "team_join", User(TRUE, UA, FALSE, "absent"))) }

UnsignedBody == Callback(Event(TRUE, "team_join", User(TRUE, UA, FALSE, "absent")))

CoreRequests(secret, nowSec) ==
    { Request(HeadersOfKind(TRUE, 0, "correct", secret, nowSec, b), b) :
        b \in CoreBodies }
    \cup { Request(HeadersOfKind(TRUE, 0, "missing", secret, nowSec, UnsignedBody),
                   UnsignedBody) }

\* The times at which the next request can arrive: Date.now() is read on
\* arrival only (lines 105 and 272), so time passes with the arrivals.
Later == {t \in TimePoints : t >= clock}

Arrival(t) == CoreRequests(env.SLACK_SIGNING_SECRET, nowSeconds(DateNow(t)))
AnyArrival(t) == Requests(env.SLACK_SIGNING_SECRET, nowSeconds(DateNow(t)))
AnyParsedArrival(t) == ParsedRequests(env.SLACK_SIGNING_SECRET, nowSeconds(DateNow(t)))

\* No invocation is suspended.
Quiet == \A q \in Slots : pc[q] \in {"idle", "done"}

handler(r) ==
    /\ nreq < MaxRequests
    /\ Quiet
    /\ \E t \in Later : \E req \in Arrival(t) : handlerOn(r, req, t)
handlerV3(r) ==
    /\ nreq < MaxRequests
    /\ Quiet
    /\ \E t \in Later : \E req \in Arrival(t) : handlerV3On(r, req, t)
handlerPart0(r) ==
    /\ nreq < MaxRequests
    /\ Quiet
    /\ \E t \in Later : \E req \in Arrival(t) : handlerPart0On(r, req, t)
moduleExports(r) ==
    /\ nreq < MaxRequests
    /\ Quiet
    /\ \E t \in Later : \E req \in Arrival(t) : moduleExportsOn(r, req, t)
handlerV1(r) ==
    /\ nreq < MaxRequests
    /\ Quiet
    /\ \E t \in Later : \E req \in Arrival(t) : handlerV1On(r, req, t)

Continue ==
    \/ \E r \in Slots : usersInfoReturns(r)
    \/ \E r \in Slots : usergroupsUsersListReturns(r)
    \/ \E r \in Slots : usergroupsUsersUpdateReturns(r)
    \/ \E r \in Slots : conversationsOpenReturns(r)
    \/ \E r \in Slots : chatPostMessageReturns(r)
    \/ \E r \in Slots : usersInfoReturnsV3(r)
    \/ \E r \in Slots : usergroupsUsersListReturnsV3(r)
    \/ \E r \in Slots : usergroupsUsersUpdateReturnsV3(r)
    \/ \E r \in Slots : usergroupsUsersListReturnsPart0(r)
    \/ \E r \in Slots : usergroupsUsersUpdateReturnsPart0(r)
    \/ \E r \in Slots : usergroupsUsersListReturnsAuto(r)
    \/ \E r \in Slots : usergroupsUsersUpdateReturnsAuto(r)
    \/ \E r \in Slots : conversationsInviteReturnsAuto(r)
    \/ \E r \in Slots : usergroupsUsersListReturnsV1(r)
    \/ \E r \in Slots : usergroupsUsersUpdateReturnsV1(r)

Next ==
    \/ \E r \in Slots : handler(r)
    \/ \E r \in Slots : handlerV3(r)
    \/ \E r \in Slots : handlerPart0(r)
    \/ \E r \in Slots : moduleExports(r)
    \/ \E r \in Slots : handlerV1(r)
    \/ Continue

Spec == Init /\ [][Next]_vars

\* One request of any shape against a fresh process.
handlerAny(r) ==
    nreq = 0 /\ \E t \in Later : \E req \in AnyArrival(t) : handlerOn(r, req, t)
handlerV3Any(r) ==
    nreq = 0 /\ \E t \in Later : \E req \in AnyParsedArrival(t) : handlerV3On(r, req, t)
handlerPart0Any(r) ==
    nreq = 0 /\ \E t \in Later : \E req \in AnyParsedArrival(t) : handlerPart0On(r, req, t)
moduleExportsAny(r) ==
    nreq = 0 /\ \E t \in Later : \E req \in AnyArrival(t) : moduleExportsOn(r, req, t)
handlerV1Any(r) ==
    nreq = 0 /\ \E t \in Later : \E req \in AnyParsedArrival(t) : handlerV1On(r, req, t)

NextRequest ==
    \/ \E r \in Slots : handlerAny(r)
    \/ \E r \in Slots : handlerV3Any(r)
    \/ \E r \in Slots : handlerPart0Any(r)
    \/ \E r \in Slots : moduleExportsAny(r)
    \/ \E r \in Slots : handlerV1Any(r)
    \/ Continue

SpecRequest == Init /\ [][NextRequest]_vars

\* Overlapping requests to the handler at src/api/events.js:226: every await
\* is a point where another request can be received.
OverlapBodies ==
    { Callback(Event(TRUE, "team_join", User(TRUE, UA, FALSE, "absent"))),
      Callback(Event(TRUE, "team_join", User(TRUE, UC, FALSE, "absent"))) }

OverlapArrival(t) ==
    { Request(HeadersOfKind(TRUE, 0, "correct", env.SLACK_SIGNING_SECRET,
                            nowSeconds(DateNow(t)), b), b) : b \in OverlapBodies }

InitOverlap ==
    /\ Init
    /\ variant = "main"
    /\ env.SLACK_SIGNING_SECRET = "s1"
    /\ parseIdList(env.USERGROUP_IDS) # <<>>

handlerOverlap(r) ==
    /\ nreq < MaxOverlap
    /\ \E t \in Later : \E req \in OverlapArrival(t) : handlerOn(r, req, t)

NextOverlap ==
    \/ \E r \in Slots : handlerOverlap(r)
    \/ \E r \in Slots : usersInfoReturns(r)
    \/ \E r \in Slots : usergroupsUsersListReturns(r)
    \/ \E r \in Slots : usergroupsUsersUpdateReturns(r)
    \/ \E r \in Slots : conversationsOpenReturns(r)
    \/ \E r \in Slots : chatPostMessageReturns(r)

SpecOverlap == InitOverlap /\ [][NextOverlap]_vars

\* Redelivery without end to the handler at src/api/events.js:226.  The
\* handler looks at now - timestamp only (lines 276 and 287), so the passing
\* of time is modelled by moving every timestamp back while Date.now() stays
\* at DateNow(RedeliveryNow); a timestamp never goes further back than
\* DUPLICATE_WINDOW + 1 ms, beyond which the handler tells no difference.
RedeliveryNow == DUPLICATE_WINDOW + 1

RedeliveredBody == Callback(Event(TRUE, "team_join", User(TRUE, UA, FALSE, "absent")))

Elapses == {p[2] - p[1] : p \in {q \in TimePoints \X TimePoints : q[2] > q[1]}}

movedBack(map, d) == [k \in DOMAIN map |-> map[k] - d]

timePasses ==
    /\ accepted # EmptyMap
    /\ \E d \in Elapses :
         /\ \A k \in DOMAIN accepted :
               DateNow(RedeliveryNow) - (accepted[k] - d) \in TimePoints
         /\ accepted' = movedBack(accepted, d)
         /\ recentlyProcessed' = movedBack(recentlyProcessed, d)
    /\ last' = NoLast
    /\ UNCHANGED <<variant, env, clock, members, pc, loc, resp, calls, since, nreq>>

redelivered(r) ==
    /\ variant = "main"
    /\ handlerOn(r, Request(HeadersOfKind(TRUE, 0, "correct", env.SLACK_SIGNING_SECRET,
                                          nowSeconds(DateNow(RedeliveryNow)),
                                          RedeliveredBody),
                            RedeliveredBody),
                 RedeliveryNow)

NextRedelivery ==
    \/ \E r \in Slots : redelivered(r)
    \/ timePasses
    \/ \E r \in Slots : usersInfoReturns(r)
    \/ \E r \in Slots : usergroupsUsersListReturns(r)
    \/ \E r \in Slots : usergroupsUsersUpdateReturns(r)
    \/ \E r \in Slots : conversationsOpenReturns(r)
    \/ \E r \in Slots : chatPostMessageReturns(r)

\* Every awaited call returns, and time passes.
SpecRedelivery ==
    /\ InitOverlap
    /\ [][NextRedelivery]_vars
    /\ WF_vars(timePasses)
    /\ \A r \in Slots :
          /\ WF_vars(usersInfoReturns(r))
          /\ WF_vars(usergroupsUsersListReturns(r))
          /\ WF_vars(usergroupsUsersUpdateReturns(r))
          /\ WF_vars(conversationsOpenReturns(r))
          /\ WF_vars(chatPostMessageReturns(r))

----------------------------------------------------------------------------
\* The vocabulary of the properties.

\* The previous step received a request; Answer is what became of it.
Arrived == last.slot # 0
Answered == Arrived /\ pc[last.slot] = "done"
Answer == resp[last.slot]
NoCallMade == Answered /\ calls[last.slot] = <<>>

Range(s) == {s[k] : k \in DOMAIN s}

\* 'v0=' + HMAC-SHA256 of 'v0:' + timestamp + ':' + body under the secret
ExpectedSignature(req) ==
    Signature(env.SLACK_SIGNING_SECRET, req.headers.ts, req.body, SigLen)

SignatureMissingOrWrong(req) ==
    ~req.headers.hasSig \/ req.headers.sig # ExpectedSignature(req)

Skew(req, now) == abs(nowSeconds(now) - req.headers.ts)

CorrectlySigned(req) ==
    /\ req.headers.hasTs /\ req.headers.hasSig
    /\ req.headers.sig = ExpectedSignature(req)

\* A request the signature check has to let through.
Authentic(req, now) ==
    /\ env.SLACK_SIGNING_SECRET # ""
    /\ CorrectlySigned(req)
    /\ Skew(req, now) <= 300

\* The deployed handler checks signatures at all.
Verifies == variant \in {"main", "auto"}

IsHandshake(body) ==
    body.isObject /\ body.type = "url_verification" /\ body.challenge # ""

Actionable(event) ==
    \/ event.type = "team_join"
    \/ /\ event.type = "user_change"
       /\ event.user.present
       /\ ~event.user.deleted
       /\ event.user.is_restricted = "false"

\* The request got past verification, parsing and the handshake, and
\* carries an event.
CarriesEvent(req, now) ==
    /\ Verifies => Authentic(req, now)
    /\ req.body.isObject
    /\ ~IsHandshake(req.body)
    /\ req.body.event.present

ConfiguredGroups == parseIdList(env.USERGROUP_IDS)

IsGroupCall(c) == c.api \in {"usergroups.users.list", "usergroups.users.update"}
ListCalls(cs, g) ==
    {k \in DOMAIN cs : cs[k].api = "usergroups.users.list" /\ cs[k].group = g}
UpdateCalls(cs, g) ==
    {k \in DOMAIN cs : cs[k].api = "usergroups.users.update" /\ cs[k].group = g}

\* The first occurrence of every id of s, in order.
RECURSIVE FirstOccurrences(_, _)
FirstOccurrences(s, seen) ==
    IF s = <<>> THEN <<>>
    ELSE IF Head(s) \in seen THEN FirstOccurrences(Tail(s), seen)
         ELSE <<Head(s)>> \o FirstOccurrences(Tail(s), seen \cup {Head(s)})

LooksLikeUserId(id) == id.first = "U" /\ id.len > 10

\* What each handler makes of the fetched member list before appending U.
KeptMembers(fetched) ==
    CASE variant = "main"  -> SelectSeq(fetched, LooksLikeUserId)
      [] variant = "part0" -> FirstOccurrences(fetched, {})
      [] OTHER             -> fetched

----------------------------------------------------------------------------
\* C1: a request whose signature header is missing or differs from the
\* expected 'v0=' + HMAC value, a value of another length included, is
\* answered 401 and makes no outbound call.
C1_BadSignatureRejected ==
    (Arrived /\ Verifies /\ SignatureMissingOrWrong(last.req))
        => (Answered /\ Answer.status = 401 /\ NoCallMade)

----------------------------------------------------------------------------
\* C2: a request whose timestamp is more than 300 s away from the current
\* time is rejected even when correctly signed, and a correctly signed
\* request exactly 300 s away is accepted.
C2_ReplayWindow ==
    (Arrived /\ Verifies /\ env.SLACK_SIGNING_SECRET # ""
             /\ CorrectlySigned(last.req))
        => /\ Skew(last.req, last.now) > 300
                => (Answered /\ Answer.status = 401 /\ NoCallMade)
           /\ Skew(last.req, last.now) = 300
                => ~(Answered /\ Answer.status = 401)

C2_AcceptedAtBoundary ==
    /\ Arrived /\ Verifies
    /\ CorrectlySigned(last.req)
    /\ Skew(last.req, last.now) = 300
    /\ last.req.headers.ts < nowSeconds(last.now)
    /\ IsHandshake(last.req.body)
    /\ Answered /\ Answer.status = 200 /\ Answer.text = last.req.body.challenge

----------------------------------------------------------------------------
\* C3: with no signing secret configured every request, whatever its
\* headers and body, is answered 401 and nothing is processed: no call is
\* made and the dedup map stays as it was.
C3_NoSecretFailsClosed ==
    (Arrived /\ Verifies /\ env.SLACK_SIGNING_SECRET = "")
        => /\ Answered /\ Answer.status = 401 /\ NoCallMade
           /\ recentlyProcessed = EmptyMap

C3_HandshakeWithoutSecret ==
    /\ Arrived /\ Verifies
    /\ env.SLACK_SIGNING_SECRET = ""
    /\ CorrectlySigned(last.req)
    /\ IsHandshake(last.req.body)
    /\ Answered /\ Answer.status = 401

----------------------------------------------------------------------------
\* C4: an actionable event for a user whose last event was accepted less
\* than 30,000 ms earlier is answered 200 with skipped:true and reason
\* 'recently_processed', and no list-members or set-members call is made.
C4_DuplicateSkipped ==
    (Arrived /\ variant \in {"main", "v3"}
             /\ CarriesEvent(last.req, last.now)
             /\ Actionable(last.req.body.event)
             /\ last.prev >= 0 /\ last.now - last.prev < 30000)
        => /\ Answered /\ Answer.status = 200
           /\ Answer.skipped /\ Answer.reason = "recently_processed"
           /\ \A k \in DOMAIN calls[last.slot] : ~IsGroupCall(calls[last.slot][k])

C4_SecondWithinWindow ==
    /\ Arrived /\ variant \in {"main", "v3"}
    /\ Actionable(last.req.body.event)
    /\ last.prev >= 0 /\ last.now - last.prev = 29999
    /\ Answered /\ Answer.skipped

----------------------------------------------------------------------------
\* C5: an event is acted on exactly when it is a team_join, or a
\* user_change whose user is not deleted and has is_restricted false; every
\* other event is answered 'Skipped' with status 200 and makes no call.
C5_Classification ==
    (Arrived /\ variant \in {"main", "part0", "auto"}
             /\ CarriesEvent(last.req, last.now))
        => IF Actionable(last.req.body.event)
           THEN ~(Answered /\ Answer.text \in {"Skipped", "ignored", "ok"})
           ELSE Answered /\ Answer.status = 200 /\ Answer.text = "Skipped"
                /\ NoCallMade

----------------------------------------------------------------------------
\* What is to be sent for a group whose fetched list lacks the user: the
\* fetched list ("fetched") or what the handler keeps of it ("kept"), with
\* the user appended.
ListToSend(which, r, fetched) ==
    Append(IF which = "kept" THEN KeptMembers(fetched) ELSE fetched, resp[r].userId)

\* What the finished invocation in slot r did for the group of the i-th
\* entry of its results.
GroupHandled(r, i, which) ==
    LET entry == resp[r].ugResults[i]
        g == entry.usergroup
        cs == calls[r]
        U == resp[r].userId
    IN  \A k \in ListCalls(cs, g) :
          cs[k].outcome = "ok" =>
            IF U \in Range(cs[k].result)
            THEN /\ entry.ok /\ entry.updated = "false"
                 /\ entry.reason = "already a member"
                 /\ UpdateCalls(cs, g) = {}
            ELSE /\ UpdateCalls(cs, g) = {k + 1}
                 /\ cs[k + 1].users = ListToSend(which, r, cs[k].result)
                 /\ cs[k + 1].outcome = "ok"
                      => (entry.ok /\ entry.updated = "true")

ReportsGroups(r) ==
    /\ pc[r] = "done"
    /\ variant \in {"main", "part0", "auto"}
    /\ resp[r].hasResults

----------------------------------------------------------------------------
\* C7: when a list-members or set-members call fails for one group, the
\* response still has status 200 and holds one entry per configured group,
\* in configured order; the failed group's entry has ok:false and an error,
\* and every other entry is what that group's own calls make it.
GroupFailed(cs, g) ==
    \E k \in ListCalls(cs, g) \cup UpdateCalls(cs, g) :
      cs[k].outcome \in {"throw", "error"}

EntryAsOwnCallsSay(r, i) ==
    LET entry == resp[r].ugResults[i]
        g == ConfiguredGroups[i]
        cs == calls[r]
    IN  /\ entry.usergroup = g
        /\ IF GroupFailed(cs, g)
           THEN ~entry.ok /\ entry.error # ""
           ELSE /\ entry.ok
                /\ entry.updated = IF UpdateCalls(cs, g) = {} THEN "false" ELSE "true"

C7_PartialFailureIsolation ==
    \A r \in Slots :
      (/\ pc[r] = "done" /\ Verifies
       /\ \E g \in Range(ConfiguredGroups) : GroupFailed(calls[r], g))
        => /\ resp[r].status = 200
           /\ Len(resp[r].ugResults) = Len(ConfiguredGroups)
           /\ \A i \in DOMAIN resp[r].ugResults : EntryAsOwnCallsSay(r, i)

----------------------------------------------------------------------------
\* C8: every response has status 200, 401 or 500; 401 exactly when the
\* signature check failed, 500 only when an exception escaped (a body that
\* is no JSON object), and 200 otherwise, failed outbound calls included.
C8_StatusCodes ==
    \A r \in Slots :
      (pc[r] = "done" /\ Verifies)
        => /\ resp[r].status \in {200, 401, 500}
           /\ IF Arrived
              THEN /\ resp[r].status = 401 <=> ~Authentic(last.req, last.now)
                   /\ resp[r].status = 500 => ~last.req.body.isObject
              ELSE resp[r].status = 200

----------------------------------------------------------------------------
\* C9: a correctly signed payload of type 'url_verification' with a
\* challenge is answered 200 with the challenge as body, with or without an
\* event field, without any call and without touching the dedup map.
C9_Handshake ==
    (Arrived /\ variant \in {"main", "auto", "v3"}
             /\ Authentic(last.req, last.now)
             /\ IsHandshake(last.req.body))
        => /\ Answered /\ Answer.status = 200
           /\ Answer.text = last.req.body.challenge
           /\ NoCallMade
           /\ recentlyProcessed = EmptyMap

----------------------------------------------------------------------------
\* C10: with an empty group list an accepted actionable event is answered
\* 200 with ok:true and a warning, and no outbound call is made.
C10_EmptyGroupList ==
    (Arrived /\ Verifies
             /\ ConfiguredGroups = <<>>
             /\ CarriesEvent(last.req, last.now)
             /\ last.req.body.type = "event_callback"
             /\ last.req.body.event.type = "team_join"
             /\ last.req.body.event.user.present
             /\ last.req.body.event.user.id # Undefined
             /\ ~(last.prev >= 0 /\ last.now - last.prev < 30000))
        => /\ Answered /\ Answer.status = 200 /\ Answer.ok = "true"
           /\ Answer.warning # ""
           /\ NoCallMade

----------------------------------------------------------------------------
\* C11: when users.info reports the user deleted, the request is answered
\* 200 with ok:true and a warning, and no list-members, set-members, invite
\* or message call is made: users.info is the only call of the request.
ReportedDeleted(r) ==
    /\ variant \in {"main", "v3"}
    /\ calls[r] # <<>>
    /\ calls[r][1].api = "users.info"
    /\ calls[r][1].outcome = "deleted"

C11_DeletedUserAborts ==
    \A r \in Slots :
      ReportedDeleted(r)
        => /\ pc[r] = "done"
           /\ resp[r].status = 200 /\ resp[r].ok = "true"
           /\ resp[r].warning # ""
           /\ Len(calls[r]) = 1

C11_DeletedReported ==
    \E r \in Slots :
      /\ ReportedDeleted(r) /\ variant = "v3"
      /\ resp[r].warning = "User is deleted"

----------------------------------------------------------------------------
\* C12: channel invites and the welcome message are issued only after a
\* set-members call of the same request succeeded; the welcome message is
\* posted at most once and lists exactly the groups updated in the request.
IsSucceededUpdate(c) == c.api = "usergroups.users.update" /\ c.outcome = "ok"

UpdatedGroups(cs) ==
    LET done == SelectSeq(cs, IsSucceededUpdate)
    IN  [k \in DOMAIN done |-> done[k].group]

IsFollowUpCall(c) ==
    c.api \in {"conversations.invite", "conversations.open", "chat.postMessage"}

C12_FollowUpOnlyAfterUpdate ==
    \A r \in Slots :
      Verifies =>
        LET cs == calls[r]
            posts == {k \in DOMAIN cs : cs[k].api = "chat.postMessage"}
        IN  /\ \A k \in DOMAIN cs :
                 IsFollowUpCall(cs[k]) => UpdatedGroups(SubSeq(cs, 1, k - 1)) # <<>>
            /\ Cardinality(posts) <= 1
            /\ \A k \in posts : cs[k].text = UpdatedGroups(cs)

----------------------------------------------------------------------------
\* C13: when an actionable event for a user is processed again after the
\* 30,000 ms window and the user is already a member of every configured
\* group, the invocation makes no set-members call, sends no welcome message
\* and leaves every group's member list as it was.
FetchedOk(cs, g) == {k \in ListCalls(cs, g) : cs[k].outcome = "ok"}

\* U was a member of g when the invocation in slot r looked (or, where the
\* list call failed, is one now).
WasMember(r, g) ==
    IF FetchedOk(calls[r], g) # {}
    THEN \A k \in FetchedOk(calls[r], g) : resp[r].userId \in Range(calls[r][k].result)
    ELSE resp[r].userId \in Range(members[g])

ReprocessedMember(r) ==
    /\ variant \in {"v1", "main"}
    /\ pc[r] = "done"
    /\ resp[r].status = 200
    /\ since[r] = "window passed"
    /\ ConfiguredGroups # <<>>
    /\ \A g \in Range(ConfiguredGroups) : WasMember(r, g)

C13_ReprocessingIdempotent ==
    \A r \in Slots : ReprocessedMember(r)
        => /\ \A k \in DOMAIN calls[r] :
                 /\ calls[r][k].api # "usergroups.users.update"
                 /\ calls[r][k].api # "conversations.open"
                 /\ calls[r][k].api # "chat.postMessage"
           /\ \A g \in Range(ConfiguredGroups) :
                 \A k \in FetchedOk(calls[r], g) : members[g] = calls[r][k].result

----------------------------------------------------------------------------
\* C14: within one request the groups are handled one after another in
\* configured order: a call is issued only when every earlier call of the
\* request has completed, the list-members calls follow the configured
\* entries in order, and every set-members call directly follows the one
\* list-members call of its entry; no call is repeated.
IsListCall(c) == c.api = "usergroups.users.list"
GroupsListed(cs) ==
    LET ls == SelectSeq(cs, IsListCall) IN [k \in DOMAIN ls |-> ls[k].group]

C14_SequentialNoRetry ==
    \A r \in Slots : Verifies =>
        LET cs == calls[r] IN
        /\ \A k \in DOMAIN cs : k < Len(cs) => cs[k].outcome # "pending"
        /\ Len(GroupsListed(cs)) <= Len(ConfiguredGroups)
        /\ GroupsListed(cs) = SubSeq(ConfiguredGroups, 1, Len(GroupsListed(cs)))
        /\ \A k \in DOMAIN cs : cs[k].api = "usergroups.users.update"
              => /\ k > 1
                 /\ IsListCall(cs[k - 1])
                 /\ cs[k - 1].group = cs[k].group
                 /\ cs[k - 1].outcome = "ok"

C14_TwoGroupsInTurn ==
    \E r \in Slots :
        /\ Verifies
        /\ Len(ConfiguredGroups) = 2
        /\ GroupsListed(calls[r]) = ConfiguredGroups
        /\ \E k \in DOMAIN calls[r] :
              /\ calls[r][k].api = "usergroups.users.update"
              /\ calls[r][k].group = ConfiguredGroups[1]
              /\ calls[r][k].outcome = "throw"
        /\ calls[r][Len(calls[r])].api = "usergroups.users.update"
        /\ calls[r][Len(calls[r])].outcome = "pending"

----------------------------------------------------------------------------
\* C16: when fetching the user's info fails, the handler goes on with the
\* per-group loop, and the request is answered 200 with one result per
\* configured group.
InfoFailed(r) ==
    /\ variant \in {"main", "v3"}
    /\ calls[r] # <<>>
    /\ calls[r][1].api = "users.info"
    /\ calls[r][1].outcome = "throw"

C16_InfoFailureNotFatal ==
    \A r \in Slots : InfoFailed(r)
        => /\ Len(calls[r]) >= 2
           /\ calls[r][2].api = "usergroups.users.list"
           /\ calls[r][2].group = ConfiguredGroups[1]
           /\ pc[r] # "idle"
           /\ pc[r] = "done"
                => /\ resp[r].status = 200
                   /\ resp[r].ok = "true"
                   /\ resp[r].hasResults
                   /\ Len(resp[r].ugResults) = Len(ConfiguredGroups)

C16_AnsweredAfterInfoFailure ==
    \E r \in Slots :
        /\ InfoFailed(r) /\ variant = "v3"
        /\ pc[r] = "done"
        /\ Len(resp[r].ugResults) = 2

----------------------------------------------------------------------------
\* C17: when the welcome-message step fails (conversations.open or
\* chat.postMessage is rejected), the response is still 200 with ok true,
\* and ugResults is what the membership calls alone determine.
WelcomeFailed(r) ==
    /\ variant = "main"
    /\ pc[r] = "done"
    /\ \E k \in DOMAIN calls[r] :
          /\ calls[r][k].api \in {"conversations.open", "chat.postMessage"}
          /\ calls[r][k].outcome = "throw"

C17_WelcomeFailureKeepsResponse ==
    \A r \in Slots : WelcomeFailed(r)
        => /\ resp[r].status = 200
           /\ resp[r].ok = "true"
           /\ resp[r].hasResults
           /\ Len(resp[r].ugResults) = Len(ConfiguredGroups)
           /\ \A i \in DOMAIN resp[r].ugResults : EntryAsOwnCallsSay(r, i)

C17_PostRejected ==
    \E r \in Slots :
        /\ WelcomeFailed(r)
        /\ calls[r][Len(calls[r])].outcome = "throw"
        /\ resp[r].welcomeMessage = "ok:false"
        /\ \E i \in DOMAIN resp[r].ugResults : resp[r].ugResults[i].updated = "true"

----------------------------------------------------------------------------
\* C18: right after an actionable event has been accepted at time now, the
\* dedup map holds no entry older than 30,000 ms and holds the accepted user
\* with timestamp now; and an event whose user was last accepted 30,000 ms
\* ago or earlier is accepted: the lookup treats that entry as absent.
JustAccepted ==
    Arrived /\ variant \in {"main", "v3"} /\ last.stamped

C18_SweptAndStamped ==
    /\ JustAccepted
         => /\ \A k \in DOMAIN recentlyProcessed :
                  last.now - recentlyProcessed[k] <= 30000
            /\ userIdOf(last.req.body.event) \in DOMAIN recentlyProcessed
            /\ recentlyProcessed[userIdOf(last.req.body.event)] = last.now
    /\ (Arrived /\ variant \in {"main", "v3"}
               /\ CarriesEvent(last.req, last.now)
               /\ Actionable(last.req.body.event)
               /\ last.prev >= 0 /\ last.now - last.prev >= 30000)
         => last.stamped

C18_AcceptedAtWindowEdge ==
    /\ JustAccepted
    /\ last.prev >= 0 /\ last.now - last.prev = 30000
    /\ \E k \in DOMAIN recentlyProcessed :
          /\ k # userIdOf(last.req.body.event)
          /\ last.now - recentlyProcessed[k] = 30000

----------------------------------------------------------------------------
\* C20: a request answered 401, with the handshake reply, with 'No event'
\* or with 'Skipped' makes no outbound call and leaves the dedup map as it
\* was; the map changes only when an actionable event is accepted.
EndsBeforeDedup ==
    /\ Arrived /\ variant \in {"main", "v3"}
    /\ Answered
    /\ \/ Answer.status = 401
       \/ IsHandshake(last.req.body) /\ Answer.text = last.req.body.challenge
       \/ Answer.text = "No event"
       \/ Answer.text = "Skipped"

C20_EarlyExitFrame ==
    [][ /\ EndsBeforeDedup'
          => /\ recentlyProcessed' = recentlyProcessed
             /\ calls'[last'.slot] = <<>>
        /\ recentlyProcessed' # recentlyProcessed
          => /\ Arrived' /\ last'.stamped
             /\ Actionable(last'.req.body.event) ]_vars

C20_SkippedWithEntries ==
    /\ EndsBeforeDedup
    /\ Answer.text = "Skipped"
    /\ recentlyProcessed # EmptyMap

----------------------------------------------------------------------------
\* C19: with requests received while other invocations are suspended, the
\* dedup lookup and the stamp are one step, so of the invocations for one
\* user that are in the membership loop at the same time none was accepted
\* less than 30,000 ms after another acceptance of that user, and at most
\* one of them was the first for that user.
InLoop(r) == pc[r] \notin {"idle", "done"}

C19_DedupAtomic ==
    /\ \A r \in Slots : InLoop(r) => since[r] \in {"never", "window passed"}
    /\ \A r1, r2 \in Slots :
          (r1 # r2 /\ InLoop(r1) /\ InLoop(r2) /\ loc[r1].userId = loc[r2].userId)
              => ~(since[r1] = "never" /\ since[r2] = "never")
    /\ (Arrived /\ last.prev >= 0 /\ last.now - last.prev < 30000)
          => /\ Answered /\ Answer.skipped
             /\ recentlyProcessed[userIdOf(last.req.body.event)] = last.prev

C19_SkippedWhileFirstInFlight ==
    /\ Arrived /\ Answered /\ Answer.skipped
    /\ Answer.reason = "recently_processed"
    /\ \E r \in Slots :
          /\ r # last.slot
          /\ InLoop(r)
          /\ loc[r].userId = userIdOf(last.req.body.event)

----------------------------------------------------------------------------
\* C15: if the actionable event for a user keeps being redelivered, the
\* list-members and set-members calls from some point on succeed, and from
\* some point on users.info does not report the user deleted, then the user
\* eventually is a member of every configured group.
MemberOfEveryGroup ==
    \A g \in Range(ConfiguredGroups) : UA \in Range(members[g])

NoGroupCallFailed ==
    \A r \in Slots : \A k \in DOMAIN calls[r] :
        IsGroupCall(calls[r][k]) => calls[r][k].outcome # "throw"

NotReportedDeleted ==
    \A r \in Slots : \A k \in DOMAIN calls[r] : calls[r][k].outcome # "deleted"

C15_EventuallyMember ==
    ([]<>Arrived /\ <>[]NoGroupCallFailed /\ <>[]NotReportedDeleted)
        => <>MemberOfEveryGroup

\* C15 as stated, without the condition on users.info.
C15_EventuallyMemberAsStated ==
    ([]<>Arrived /\ <>[]NoGroupCallFailed) => <>MemberOfEveryGroup

C15_AddedOnRedelivery ==
    \E r \in Slots :
        /\ pc[r] = "done"
        /\ since[r] = "window passed"
        /\ \E k \in DOMAIN calls[r] : IsSucceededUpdate(calls[r][k])
        /\ MemberOfEveryGroup

----------------------------------------------------------------------------
\* C21: the member list sent in a set-members call is the fetched list
\* without its invalid and non-human identifiers (the bot's own among them),
\* with the target user appended, and holds no identifier twice, even when
\* the fetched list holds a duplicate.
IsHumanId(id) == LooksLikeUserId(id) /\ id # botUserId

NoDuplicates(s) == \A j, k \in DOMAIN s : s[j] = s[k] => j = k

\* The invocation in slot r has just issued a set-members call for a valid
\* user, after fetching the list of the group.
UpdateIssued(r) ==
    /\ variant \in {"main", "v3", "part0"}
    /\ pc[r] = "usergroups.users.update"
    /\ Len(calls[r]) >= 2
    /\ calls[r][Len(calls[r]) - 1].api = "usergroups.users.list"
    /\ LooksLikeUserId(loc[r].userId)

C21_SentListCleanAndUnique ==
    \A r \in Slots : UpdateIssued(r)
        => LET sent == calls[r][Len(calls[r])].users
               fetched == calls[r][Len(calls[r]) - 1].result
           IN  /\ sent = Append(FirstOccurrences(SelectSeq(fetched, IsHumanId), {}),
                                loc[r].userId)
               /\ NoDuplicates(sent)

----------------------------------------------------------------------------
\* C22: no update is lost between overlapping requests: when two requests
\* for different users have both reported ok:true, updated:true for a group,
\* the group holds both users.  A user is in the group right after the
\* set-members call that added them succeeded, so the claim says that no
\* later successful set-members call of another request takes a user out of
\* the group again.
JoiningUsers == {UA, UB, UC}

C22_NoLostUpdate ==
    [][ \A g \in Groups : \A u \in JoiningUsers :
          u \in Range(members[g]) => u \in Range(members'[g]) ]_vars

----------------------------------------------------------------------------
\* C23: an event that carries no user id leads to no list-members or
\* set-members call and to no dedup-map entry keyed by the absent id.
C23_NoCallWithoutUserId ==
    Verifies =>
        /\ Undefined \notin DOMAIN recentlyProcessed
        /\ \A r \in Slots :
              pc[r] \in {"usergroups.users.list", "usergroups.users.update"}
                  => loc[r].userId # Undefined

----------------------------------------------------------------------------
\* C24: a request answered skipped 'recently_processed' leaves the user's
\* dedup entry at the time of the last accepted event, so after any number
\* of duplicates a request arriving 30,000 ms or more after that accepted
\* event is accepted again.
SkippedAsDuplicate ==
    /\ Arrived /\ variant \in {"main", "v3"}
    /\ Answered /\ Answer.skipped
    /\ Answer.reason = "recently_processed"

C24_SkipDoesNotRestamp ==
    /\ SkippedAsDuplicate
         => /\ last.prev >= 0
            /\ userIdOf(last.req.body.event) \in DOMAIN recentlyProcessed
            /\ recentlyProcessed[userIdOf(last.req.body.event)] = last.prev
    /\ (Arrived /\ variant \in {"main", "v3"}
               /\ CarriesEvent(last.req, last.now)
               /\ Actionable(last.req.body.event)
               /\ last.prev >= 0 /\ last.now - last.prev >= 30000)
         => ~Answer.skipped /\ last.stamped

C24_SecondDuplicate ==
    /\ SkippedAsDuplicate
    /\ nreq = 3
    /\ DOMAIN accepted = {userIdOf(last.req.body.event)}
    /\ last.now - last.prev = 29999

----------------------------------------------------------------------------
\* C25: the dedup entry is stamped before the first outbound call and is
\* not taken back: whatever the calls of the accepted request return, the
\* entry holds the time of acceptance, so a redelivery within 30,000 ms is
\* answered skipped:true and makes no membership call even though the user
\* is in none of the configured groups.
TargetUser(r) == IF pc[r] = "done" THEN resp[r].userId ELSE loc[r].userId

InNoGroup(u) ==
    /\ ConfiguredGroups # <<>>
    /\ \A g \in Range(ConfiguredGroups) : u \notin Range(members[g])

====
